---- MODULE Spec2Model ----
(***************************************************************************)
(* GitHubProxy/index.js: one invocation of the Azure Functions HTTP        *)
(* handler `module.exports = async function (context, req)` and of         *)
(* `handleGraphQLRequest`, as a state machine.                             *)
(*                                                                         *)
(* Strings that the code takes apart or puts together (URLs, query         *)
(* strings, header values, environment values) are sequences of tokens;    *)
(* a JavaScript value that may be undefined/null is None or Some(v).       *)
(* The handler suspends at each `await`; the actions are the handler's     *)
(* code between two suspension points.                                     *)
(***************************************************************************)
EXTENDS Naturals, Sequences, FiniteSets, TLC

VARIABLES
    env,        \* process.env: GITHUB_TOKEN, GITHUB_CLIENT_ID, GITHUB_CLIENT_SECRET
    req,        \* the inbound request: method, path, originalUrl, query, body
    pc,         \* where the invocation is
    upstream,   \* the calls of fetch(...) made so far, in order
    response,   \* the upstream response fetch resolved with, None before
    error,      \* the exception a catch block caught, None if none was thrown
    resWrites   \* every value assigned to context.res, in order

vars == <<env, req, pc, upstream, response, error, resWrites>>

\* ------------------------------------------------------------------ values

None == <<>>
Some(x) == <<x>>

\* how many parameters the inbound query object may hold
MaxParams == 2

\* JavaScript truthiness of an environment value: undefined and "" are falsy
Truthy(o) == o # None /\ o[1] # <<>>

Tokens == {None, Some(<<>>), Some(<<"ghp_token">>)}
ClientIds == {None, Some(<<"Iv1.clientid">>)}
ClientSecrets == {None, Some(<<"s3cr3t">>)}

Methods == {"OPTIONS", "GET", "POST"}

\* context.bindingData.path: undefined for the bare route, else the suffix
Paths == { None,
           Some(<<"users", "/", "octocat">>),
           Some(<<"graphql">>),
           Some(<<"repos", "/", "graphql">>) }

\* req.originalUrl when the host provides it
OriginalUrlOf(p) ==
    <<"/", "api", "/", "github", "/">> \o (IF p = None THEN <<>> ELSE p[1])

QueryKeys == {"page", "code", "client_id", "client_secret"}

\* req.query[key]: one string, or the several values of a repeated key
ValueLists == { << <<"x", "&", "y">> >>,
                << <<"1">>, <<"2">> >> }

DistinctKeys(q) == \A i, j \in 1..Len(q) : i # j => q[i][1] # q[j][1]

\* the query objects: keys in insertion order, no key twice
Queries ==
    UNION { { q \in [1..n -> QueryKeys \X ValueLists] : DistinctKeys(q) }
            : n \in 0..MaxParams }

\* req.body: undefined, or the parsed JSON object
Bodies == { None,
            Some(<<>>),
            Some([query |-> ""]),
            Some([query |-> "{repository{name}}"]),
            Some([variables |-> "v"]),
            Some([query |-> "{repository{name}}", variables |-> "v"]) }

JsonValue(v) == [type |-> "json", value |-> v]
TextValue(s) == [type |-> "text", value |-> s]

\* ------------------------------------------------------- upstream responses

RateLimitNames ==
    {"x-ratelimit-limit", "x-ratelimit-remaining", "x-ratelimit-reset", "x-ratelimit-used"}

RateLimitAbsent == [n \in RateLimitNames |-> None]
RateLimitPresent ==
    ("x-ratelimit-limit" :> Some("60")) @@ ("x-ratelimit-remaining" :> Some("59")) @@
    ("x-ratelimit-reset" :> Some("1700000000")) @@ ("x-ratelimit-used" :> Some("1"))

RawUser == "{\"login\":\"octocat\"}"
RawNotFound == "{\"message\":\"Not Found\"}"
RawHtml == "<html>502 Bad Gateway</html>"
RawPlain == "plain text"

Statuses == {200, 404, 403}

\* content-type and raw body of an upstream response
BodyShapes == { <<Some(<<"application/json", ";", "charset=utf-8">>), RawUser>>,
                <<Some(<<"application/json", ";", "charset=utf-8">>), RawNotFound>>,
                <<Some(<<"application/json">>), RawHtml>>,
                <<Some(<<"text/plain">>), RawPlain>>,
                <<None, RawUser>> }

Responses ==
    { [status |-> s,
       headers |-> ("content-type" :> b[1]) @@ rl,
       raw |-> b[2]]
      : s \in Statuses, b \in BodyShapes, rl \in {RateLimitAbsent, RateLimitPresent} }

\* response.headers.get(name)
HeaderGet(r, name) == r.headers[name]

\* what JSON.parse accepts, and what it yields
IsJsonText(raw) == raw \in {RawUser, RawNotFound}
JsonParse(raw) ==
    IF raw = RawUser THEN JsonValue([login |-> "octocat"])
    ELSE JsonValue([message |-> "Not Found"])

FetchFailedMessage == "request to https://api.github.com failed, reason: ECONNRESET"
InvalidJsonMessage == "invalid json response body: Unexpected token < in JSON at position 0"

\* --------------------------------------------------------------- sequences

RECURSIVE IndexOf(_, _, _)
\* the first index >= i of token t in s, Len(s)+1 when there is none
IndexOf(s, t, i) ==
    IF i > Len(s) THEN Len(s) + 1
    ELSE IF s[i] = t THEN i
    ELSE IndexOf(s, t, i + 1)

\* String.prototype.includes on token sequences
Includes(s, sub) ==
    \E i \in 1..(Len(s) + 1) :
        /\ i + Len(sub) - 1 <= Len(s)
        /\ SubSeq(s, i, i + Len(sub) - 1) = sub

RECURSIVE SplitOn(_, _)
\* s.split(sep) for a one-token separator
SplitOn(s, sep) ==
    LET i == IndexOf(s, sep, 1) IN
    IF i > Len(s) THEN <<s>>
    ELSE <<SubSeq(s, 1, i - 1)>> \o SplitOn(SubSeq(s, i + 1, Len(s)), sep)

RECURSIVE JoinWith(_, _)
\* Array.prototype.join
JoinWith(parts, sep) ==
    IF parts = <<>> THEN <<>>
    ELSE IF Len(parts) = 1 THEN parts[1]
    ELSE parts[1] \o <<sep>> \o JoinWith(Tail(parts), sep)

Last(s) == s[Len(s)]

\* ------------------------------------------------------------------- URLs

\* application/x-www-form-urlencoded percent-encoding of one character
PercentEncode(ch) ==
    CASE ch = "&" -> "%26"
      [] ch = "=" -> "%3D"
      [] ch = "," -> "%2C"
      [] ch = "?" -> "%3F"
      [] OTHER -> ch

PercentDecode(ch) ==
    CASE ch = "%26" -> "&"
      [] ch = "%3D" -> "="
      [] ch = "%2C" -> ","
      [] ch = "%3F" -> "?"
      [] OTHER -> ch

EncodeComponent(s) == [i \in 1..Len(s) |-> PercentEncode(s[i])]
DecodeComponent(s) == [i \in 1..Len(s) |-> PercentDecode(s[i])]

\* URLSearchParams.toString(): name=value pairs joined by &
SerializeParams(params) ==
    JoinWith([i \in 1..Len(params) |->
                 <<PercentEncode(params[i][1]), "=">> \o EncodeComponent(params[i][2])],
             "&")

\* one name=value piece of a query string; a name is one token
ParsePair(piece) ==
    LET eq == IndexOf(piece, "=", 1) IN
    << IF eq = 1 THEN "" ELSE PercentDecode(piece[1]),
       DecodeComponent(SubSeq(piece, eq + 1, Len(piece))) >>

\* the URLSearchParams of a query string
ParseParams(qs) ==
    LET pieces == SelectSeq(SplitOn(qs, "&"), LAMBDA p : p # <<>>) IN
    [i \in 1..Len(pieces) |-> ParsePair(pieces[i])]

\* new URL(s): the part before the first ? and the parsed query after it
NewURL(s) ==
    LET q == IndexOf(s, "?", 1) IN
    [path |-> SubSeq(s, 1, q - 1),
     searchParams |-> ParseParams(SubSeq(s, q + 1, Len(s)))]

\* URL.prototype.toString()
UrlToString(u) ==
    IF u.searchParams = <<>> THEN u.path
    ELSE u.path \o <<"?">> \o SerializeParams(u.searchParams)

\* String(v) of a query value: a string as it is, an array joined by commas
ToStringValue(v) == JoinWith(v, ",")

\* urlObj.searchParams.append(name, value)
SearchParamsAppend(u, name, value) ==
    [u EXCEPT !.searchParams = Append(@, <<name, value>>)]

\* the values a query holds under a name, in order
ValuesOf(params, name) ==
    LET hits == SelectSeq(params, LAMBDA p : p[1] = name) IN
    [i \in 1..Len(hits) |-> hits[i][2]]

\* what the upstream server reads from the query string of a request URL
UpstreamQuery(url) == NewURL(url).searchParams

\* ------------------------------------------------------ the handler's parts

CorsHeaders ==
    ("Access-Control-Allow-Origin" :> "*") @@
    ("Access-Control-Allow-Methods" :> "GET, POST, OPTIONS") @@
    ("Access-Control-Allow-Headers" :> "Content-Type, Authorization")

ExposeHeaders ==
    "Access-Control-Expose-Headers" :>
        "X-RateLimit-Limit, X-RateLimit-Remaining, X-RateLimit-Reset, X-RateLimit-Used"

ErrorHeaders == ("Content-Type" :> <<"application/json">>) @@ CorsHeaders

\* a preflight answer that forgets the allowed request headers
PreflightResponseNoAllowHeaders ==
    [status |-> 200,
     headers |-> ("Access-Control-Allow-Origin" :> "*") @@
                 ("Access-Control-Allow-Methods" :> "GET, POST, OPTIONS")]

\* the response to a preflight request
PreflightResponse == [status |-> 200, headers |-> CorsHeaders]

\* !(!githubToken && (!clientId || !clientSecret))
HasCredentials(e) ==
    ~(~Truthy(e.GITHUB_TOKEN) /\
      (~Truthy(e.GITHUB_CLIENT_ID) \/ ~Truthy(e.GITHUB_CLIENT_SECRET)))

\* a configuration error answered as a client error
ConfigErrorResponseAs400 ==
    [status |-> 400,
     body |-> JsonValue(
         [error |-> "Server configuration error - Missing authentication credentials"])]

ConfigErrorResponse ==
    [status |-> 500,
     body |-> JsonValue(
         [error |-> "Server configuration error - Missing authentication credentials"])]

\* context.bindingData.path || ""
PathOf(r) == IF r.path = None THEN <<>> ELSE r.path[1]

\* path === "graphql" || req.originalUrl?.includes("/graphql")
IsGraphQLRoute(r) ==
    IF PathOf(r) = <<"graphql">> THEN TRUE
    ELSE r.originalUrl # None /\ Includes(r.originalUrl[1], <<"/", "graphql">>)

\* the keys the copy of the inbound query leaves out
ExcludedKey(key) == ~(key # "code" /\ key # "client_id" /\ key # "client_secret")

RECURSIVE CopyQueryParams(_, _)
\* Object.keys(params).forEach(key => ... urlObj.searchParams.append(key, params[key]))
CopyQueryParams(u, params) ==
    IF params = <<>> THEN u
    ELSE LET key == Head(params)[1]
             value == Head(params)[2]
         IN CopyQueryParams(
                IF ~ExcludedKey(key)
                THEN SearchParamsAppend(u, key, ToStringValue(value))
                ELSE u,
                Tail(params))

ApiBase == <<"https://api.github.com/">>

\* apiUrl after the inbound parameters are copied
RestApiUrl(r) == UrlToString(CopyQueryParams(NewURL(ApiBase \o PathOf(r)), r.query))

\* the headers of the REST call
RestHeaders(e) ==
    LET base == ("User-Agent" :> "GitHub-API-Proxy") @@
                ("Accept" :> "application/vnd.github+json")
    IN IF Truthy(e.GITHUB_TOKEN)
       THEN base @@ ("Authorization" :> (<<"Bearer ">> \o e.GITHUB_TOKEN[1]))
       ELSE base

\* the client id and secret appended whenever they are configured, token or not
RestAuthUrlAlwaysAppends(e, apiUrl) ==
    IF ~(Truthy(e.GITHUB_CLIENT_ID) /\ Truthy(e.GITHUB_CLIENT_SECRET)) THEN apiUrl
    ELSE UrlToString(
             SearchParamsAppend(
                 SearchParamsAppend(NewURL(apiUrl), "client_id", e.GITHUB_CLIENT_ID[1]),
                 "client_secret", e.GITHUB_CLIENT_SECRET[1]))

\* apiUrl after the authentication step
RestAuthUrl(e, apiUrl) ==
    IF Truthy(e.GITHUB_TOKEN) THEN apiUrl
    ELSE UrlToString(
             SearchParamsAppend(
                 SearchParamsAppend(NewURL(apiUrl), "client_id", e.GITHUB_CLIENT_ID[1]),
                 "client_secret", e.GITHUB_CLIENT_SECRET[1]))

\* fetch(apiUrl, { headers })
RestFetchRequest(e, r) ==
    [url |-> RestAuthUrl(e, RestApiUrl(r)),
     method |-> "GET",
     headers |-> RestHeaders(e),
     body |-> None]

ContentTypeOf(resp) == HeaderGet(resp, "content-type")

\* contentType && contentType.includes('application/json')
IsJsonContentType(ct) == ct # None /\ Includes(ct[1], <<"application/json">>)

\* whether reading the body of a REST response throws
RestReadThrows(resp) == IsJsonContentType(ContentTypeOf(resp)) /\ ~IsJsonText(resp.raw)

\* response.json() or response.text()
RestData(resp) ==
    IF IsJsonContentType(ContentTypeOf(resp)) THEN JsonParse(resp.raw)
    ELSE TextValue(resp.raw)

RateLimitResponseHeaders(resp) ==
    ("X-RateLimit-Limit" :> HeaderGet(resp, "x-ratelimit-limit")) @@
    ("X-RateLimit-Remaining" :> HeaderGet(resp, "x-ratelimit-remaining")) @@
    ("X-RateLimit-Reset" :> HeaderGet(resp, "x-ratelimit-reset")) @@
    ("X-RateLimit-Used" :> HeaderGet(resp, "x-ratelimit-used"))

\* a relay that always answers 200
RestResponseAlways200(resp) ==
    [status |-> 200,
     headers |->
         ("Content-Type" :>
             (IF ContentTypeOf(resp) # None /\ ContentTypeOf(resp)[1] # <<>>
              THEN ContentTypeOf(resp)[1] ELSE <<"application/json">>)) @@
         RateLimitResponseHeaders(resp) @@ CorsHeaders @@ ExposeHeaders,
     body |-> RestData(resp)]

\* the context.res of a relayed REST response
RestResponse(resp) ==
    [status |-> resp.status,
     headers |->
         ("Content-Type" :>
             (IF ContentTypeOf(resp) # None /\ ContentTypeOf(resp)[1] # <<>>
              THEN ContentTypeOf(resp)[1] ELSE <<"application/json">>)) @@
         RateLimitResponseHeaders(resp) @@ CorsHeaders @@ ExposeHeaders,
     body |-> RestData(resp)]

\* the context.res of the top-level catch block
TopLevelCatch(message) ==
    [status |-> 500,
     headers |-> ErrorHeaders,
     body |-> JsonValue([error |-> "Failed to proxy GitHub API request",
                         details |-> message])]

\* ------------------------------------------------------ handleGraphQLRequest

GraphQLUrl == <<"https://api.github.com/graphql">>

\* the check applied only to a body that exists: req.body && !req.body.query
MissingQueryBodyPresentOnly(r) ==
    r.method = "POST" /\
    (IF r.body = None THEN FALSE
     ELSE IF "query" \notin DOMAIN r.body[1] THEN TRUE
     ELSE r.body[1].query = "")

\* the check applied only to the body: !req.body
MissingQueryNoBodyOnly(r) == r.method = "POST" /\ r.body = None

\* req.method === "POST" && (!req.body || !req.body.query)
MissingQuery(r) ==
    r.method = "POST" /\
    (IF r.body = None THEN TRUE
     ELSE IF "query" \notin DOMAIN r.body[1] THEN TRUE
     ELSE r.body[1].query = "")

MissingQueryResponse ==
    [status |-> 400,
     headers |-> ErrorHeaders,
     body |-> JsonValue([error |-> "Missing GraphQL query in request body"])]

DefaultGraphQLBody == [query |-> "{viewer{login}}"]

\* req.body ? { ...req.body } : { query: "{viewer{login}}" }
GraphQLBody(r) == IF r.body # None THEN r.body[1] ELSE DefaultGraphQLBody

\* Buffer.from(s).toString('base64')
Base64(s) == [i \in 1..Len(s) |-> "b64:" \o s[i]]

\* the headers of the GraphQL call
GraphQLHeaders(e) ==
    LET base == ("User-Agent" :> "GitHub-API-Proxy") @@
                ("Content-Type" :> "application/json") @@
                ("Accept" :> "application/json")
    IN IF Truthy(e.GITHUB_TOKEN)
       THEN base @@ ("Authorization" :> (<<"Bearer ">> \o e.GITHUB_TOKEN[1]))
       ELSE IF Truthy(e.GITHUB_CLIENT_ID) /\ Truthy(e.GITHUB_CLIENT_SECRET)
       THEN base @@ ("Authorization" :>
                (<<"Basic ">> \o
                 Base64(e.GITHUB_CLIENT_ID[1] \o <<":">> \o e.GITHUB_CLIENT_SECRET[1])))
       ELSE base

JsonStringify(v) == [type |-> "json-text", of |-> v]

\* fetch(url, { method: "POST", headers, body: JSON.stringify(body) })
GraphQLFetchRequest(e, r) ==
    [url |-> GraphQLUrl,
     method |-> "POST",
     headers |-> GraphQLHeaders(e),
     body |-> Some(JsonStringify(GraphQLBody(r)))]

\* whether response.json() throws
GraphQLReadThrows(resp) == ~IsJsonText(resp.raw)

\* the context.res of a relayed GraphQL response
GraphQLResponse(resp) ==
    [status |-> resp.status,
     headers |->
         ("Content-Type" :> <<"application/json">>) @@
         CorsHeaders @@ ExposeHeaders @@ RateLimitResponseHeaders(resp),
     body |-> JsonParse(resp.raw)]

\* a catch block that answers without the CORS headers
GraphQLCatchNoCors(message) ==
    [status |-> 500,
     headers |-> ("Content-Type" :> <<"application/json">>),
     body |-> JsonValue([error |-> "Failed to proxy GraphQL request",
                         details |-> message])]

\* the context.res of handleGraphQLRequest's catch block
GraphQLCatch(message) ==
    [status |-> 500,
     headers |-> ErrorHeaders,
     body |-> JsonValue([error |-> "Failed to proxy GraphQL request",
                         details |-> message])]

\* ---------------------------------------------------------------- the run

Envs ==
    [GITHUB_TOKEN : Tokens, GITHUB_CLIENT_ID : ClientIds, GITHUB_CLIENT_SECRET : ClientSecrets]

\* the inbound requests; a request carries a query or a body, not both (the REST
\* branch never reads the body, the GraphQL branch never reads the query)
Requests ==
    UNION { { [method |-> m, path |-> p, originalUrl |-> u, query |-> q, body |-> b]
              : m \in Methods, u \in {None, Some(OriginalUrlOf(p))},
                q \in Queries, b \in Bodies }
            : p \in Paths }

Init ==
    /\ env \in Envs
    /\ req \in { r \in Requests : r.query = <<>> \/ r.body = None }
    /\ pc = "start"
    /\ upstream = <<>>
    /\ response = None
    /\ error = None
    /\ resWrites = <<>>

\* context.res = value
SetRes(value) == resWrites' = Append(resWrites, value)

\* when Preflight can be taken
PreflightEnabled ==
    /\ pc = "start"
    /\ req.method = "OPTIONS"

\* lines 6-16: the preflight answer
Preflight ==
    /\ PreflightEnabled
    /\ SetRes(PreflightResponse)
    /\ pc' = "returned"
    /\ UNCHANGED <<env, req, upstream, response, error>>

\* when ConfigError can be taken
ConfigErrorEnabled ==
    /\ pc = "start"
    /\ req.method # "OPTIONS"
    /\ ~HasCredentials(env)

\* lines 20-41: no usable credentials
ConfigError ==
    /\ ConfigErrorEnabled
    /\ SetRes(ConfigErrorResponse)
    /\ pc' = "returned"
    /\ UNCHANGED <<env, req, upstream, response, error>>

\* when RestFetch can be taken
RestFetchEnabled ==
    /\ pc = "start"
    /\ req.method # "OPTIONS"
    /\ HasCredentials(env)
    /\ ~IsGraphQLRoute(req)

\* lines 44-92: the REST branch up to `await fetch(apiUrl, { headers })`
RestFetch ==
    /\ RestFetchEnabled
    /\ upstream' = Append(upstream, RestFetchRequest(env, req))
    /\ pc' = "rest_fetch"
    /\ UNCHANGED <<env, req, response, error, resWrites>>

\* a rejected fetch tried once more before the catch block answers
RestFetchRetried ==
    /\ pc = "rest_fetch"
    /\ IF Len(upstream) < 2
       THEN /\ upstream' = Append(upstream, RestFetchRequest(env, req))
            /\ UNCHANGED <<env, req, pc, response, error, resWrites>>
       ELSE /\ error' = Some(FetchFailedMessage)
            /\ SetRes(TopLevelCatch(FetchFailedMessage))
            /\ pc' = "returned"
            /\ UNCHANGED <<env, req, upstream, response>>

\* when RestFetchRejected can be taken
RestFetchRejectedEnabled ==
    /\ pc = "rest_fetch"

\* line 92 rejects: the top-level catch block answers
RestFetchRejected ==
    /\ RestFetchRejectedEnabled
    /\ error' = Some(FetchFailedMessage)
    /\ SetRes(TopLevelCatch(FetchFailedMessage))
    /\ pc' = "returned"
    /\ UNCHANGED <<env, req, upstream, response>>

\* when RestFetchResolved can be taken
RestFetchResolvedEnabled ==
    /\ pc = "rest_fetch"

\* line 92 resolves with an upstream response, whatever its status
RestFetchResolved ==
    /\ RestFetchResolvedEnabled
    /\ \E r \in Responses : response' = Some(r)
    /\ pc' = "rest_read"
    /\ UNCHANGED <<env, req, upstream, error, resWrites>>

\* when RestRelay can be taken
RestRelayEnabled ==
    /\ pc = "rest_read"
    /\ ~RestReadThrows(response[1])

\* lines 95-130: the body is read and the response relayed
RestRelay ==
    /\ RestRelayEnabled
    /\ SetRes(RestResponse(response[1]))
    /\ pc' = "returned"
    /\ UNCHANGED <<env, req, upstream, response, error>>

\* when RestReadFailed can be taken
RestReadFailedEnabled ==
    /\ pc = "rest_read"
    /\ RestReadThrows(response[1])

\* line 104 throws: the top-level catch block answers
RestReadFailed ==
    /\ RestReadFailedEnabled
    /\ error' = Some(InvalidJsonMessage)
    /\ SetRes(TopLevelCatch(InvalidJsonMessage))
    /\ pc' = "returned"
    /\ UNCHANGED <<env, req, upstream, response>>

\* when GraphQLReject can be taken
GraphQLRejectEnabled ==
    /\ pc = "start"
    /\ req.method # "OPTIONS"
    /\ HasCredentials(env)
    /\ IsGraphQLRoute(req)
    /\ MissingQuery(req)

\* lines 47-50, 158-170: a POST without a query is refused
GraphQLReject ==
    /\ GraphQLRejectEnabled
    /\ SetRes(MissingQueryResponse)
    /\ pc' = "returned"
    /\ UNCHANGED <<env, req, upstream, response, error>>

\* when GraphQLFetch can be taken
GraphQLFetchEnabled ==
    /\ pc = "start"
    /\ req.method # "OPTIONS"
    /\ HasCredentials(env)
    /\ IsGraphQLRoute(req)
    /\ ~MissingQuery(req)

\* lines 47-50, 173-196: the GraphQL branch up to `await fetch(url, ...)`
GraphQLFetch ==
    /\ GraphQLFetchEnabled
    /\ upstream' = Append(upstream, GraphQLFetchRequest(env, req))
    /\ pc' = "graphql_fetch"
    /\ UNCHANGED <<env, req, response, error, resWrites>>

\* when GraphQLFetchRejected can be taken
GraphQLFetchRejectedEnabled ==
    /\ pc = "graphql_fetch"

\* line 192 rejects: handleGraphQLRequest's catch block answers, and the
\* top-level handler returns
GraphQLFetchRejected ==
    /\ GraphQLFetchRejectedEnabled
    /\ error' = Some(FetchFailedMessage)
    /\ SetRes(GraphQLCatch(FetchFailedMessage))
    /\ pc' = "returned"
    /\ UNCHANGED <<env, req, upstream, response>>

\* when GraphQLFetchResolved can be taken
GraphQLFetchResolvedEnabled ==
    /\ pc = "graphql_fetch"

\* line 192 resolves with an upstream response, whatever its status
GraphQLFetchResolved ==
    /\ GraphQLFetchResolvedEnabled
    /\ \E r \in Responses : response' = Some(r)
    /\ pc' = "graphql_read"
    /\ UNCHANGED <<env, req, upstream, error, resWrites>>

\* when GraphQLRelay can be taken
GraphQLRelayEnabled ==
    /\ pc = "graphql_read"
    /\ ~GraphQLReadThrows(response[1])

\* lines 199-225: the body is parsed and the response relayed
GraphQLRelay ==
    /\ GraphQLRelayEnabled
    /\ SetRes(GraphQLResponse(response[1]))
    /\ pc' = "returned"
    /\ UNCHANGED <<env, req, upstream, response, error>>

\* a catch block that answers and throws again, so the top-level one answers too
GraphQLReadFailedRethrown ==
    /\ pc = "graphql_read"
    /\ GraphQLReadThrows(response[1])
    /\ error' = Some(InvalidJsonMessage)
    /\ resWrites' = resWrites \o <<GraphQLCatch(InvalidJsonMessage),
                                   TopLevelCatch(InvalidJsonMessage)>>
    /\ pc' = "returned"
    /\ UNCHANGED <<env, req, upstream, response>>

\* when GraphQLReadFailed can be taken
GraphQLReadFailedEnabled ==
    /\ pc = "graphql_read"
    /\ GraphQLReadThrows(response[1])

\* line 199 throws: handleGraphQLRequest's catch block answers
GraphQLReadFailed ==
    /\ GraphQLReadFailedEnabled
    /\ error' = Some(InvalidJsonMessage)
    /\ SetRes(GraphQLCatch(InvalidJsonMessage))
    /\ pc' = "returned"
    /\ UNCHANGED <<env, req, upstream, response>>

Next ==
    \/ Preflight
    \/ ConfigError
    \/ RestFetch
    \/ RestFetchRejected
    \/ RestFetchResolved
    \/ RestRelay
    \/ RestReadFailed
    \/ GraphQLReject
    \/ GraphQLFetch
    \/ GraphQLFetchRejected
    \/ GraphQLFetchResolved
    \/ GraphQLRelay
    \/ GraphQLReadFailed

Spec == Init /\ [][Next]_vars

\* some step of the handler can be taken
CanStep ==
    \/ PreflightEnabled
    \/ ConfigErrorEnabled
    \/ RestFetchEnabled
    \/ RestFetchRejectedEnabled
    \/ RestFetchResolvedEnabled
    \/ RestRelayEnabled
    \/ RestReadFailedEnabled
    \/ GraphQLRejectEnabled
    \/ GraphQLFetchEnabled
    \/ GraphQLFetchRejectedEnabled
    \/ GraphQLFetchResolvedEnabled
    \/ GraphQLRelayEnabled
    \/ GraphQLReadFailedEnabled

\* -------------------------------------------------------------- properties

Returned == pc = "returned"

\* context.res, once it is set
Res == Last(resWrites)

\* no GITHUB_TOKEN, and GITHUB_CLIENT_ID and GITHUB_CLIENT_SECRET not both there
NoCredentials ==
    /\ env.GITHUB_TOKEN \in {None, Some(<<>>)}
    /\ \/ env.GITHUB_CLIENT_ID \in {None, Some(<<>>)}
       \/ env.GITHUB_CLIENT_SECRET \in {None, Some(<<>>)}

TokenConfigured == env.GITHUB_TOKEN \notin {None, Some(<<>>)}

GraphQLPath == IsGraphQLRoute(req)

HasCorsHeaders(w) ==
    /\ "headers" \in DOMAIN w
    /\ {"Access-Control-Allow-Origin", "Access-Control-Allow-Methods",
        "Access-Control-Allow-Headers"} \subseteq DOMAIN w.headers
    /\ w.headers["Access-Control-Allow-Origin"] = "*"
    /\ w.headers["Access-Control-Allow-Methods"] = "GET, POST, OPTIONS"
    /\ w.headers["Access-Control-Allow-Headers"] = "Content-Type, Authorization"

HasBody(w, b) == "body" \in DOMAIN w /\ w.body = b

\* C1: a request other than OPTIONS without usable credentials makes no upstream
\* call at any point and is answered 500 with the configuration-error body,
\* whatever its path, method, query and body.
C1_ConfigurationError ==
    (req.method # "OPTIONS" /\ NoCredentials) =>
        /\ upstream = <<>>
        /\ Returned =>
              /\ Len(resWrites) = 1
              /\ Res.status = 500
              /\ HasBody(Res, JsonValue(
                     [error |-> "Server configuration error - Missing authentication credentials"]))

C1_Witness ==
    /\ Returned
    /\ req.method = "POST"
    /\ GraphQLPath
    /\ req.body # None
    /\ env.GITHUB_TOKEN = None /\ env.GITHUB_CLIENT_ID # None /\ env.GITHUB_CLIENT_SECRET = None
    /\ Res.status = 500

\* C2: an OPTIONS request to any path, under any credential configuration, makes
\* no upstream call and is answered 200 with exactly the three CORS headers and
\* no body, never with the configuration error.
C2_Preflight ==
    req.method = "OPTIONS" =>
        /\ upstream = <<>>
        /\ Returned =>
              /\ Len(resWrites) = 1
              /\ Res.status = 200
              /\ HasCorsHeaders(Res)
              /\ DOMAIN Res.headers = {"Access-Control-Allow-Origin",
                                       "Access-Control-Allow-Methods",
                                       "Access-Control-Allow-Headers"}
              /\ "body" \notin DOMAIN Res

C2_Witness ==
    /\ Returned
    /\ req.method = "OPTIONS"
    /\ GraphQLPath
    /\ NoCredentials
    /\ Res.status = 200

HasParam(params, name) == \E i \in 1..Len(params) : params[i][1] = name

\* C3: every upstream request presents the credentials in one way: with a token
\* configured, Authorization: Bearer <token> and no client_id or client_secret
\* in the query string; with only client id and secret, a REST request has no
\* Authorization header and both parameters in its query string, a GraphQL
\* request has Authorization: Basic <base64(id:secret)> and neither parameter.
C3_OneCredentialForm ==
    \A i \in 1..Len(upstream) :
        LET u == upstream[i]
            q == UpstreamQuery(u.url)
        IN IF TokenConfigured
           THEN /\ "Authorization" \in DOMAIN u.headers
                /\ u.headers["Authorization"] = <<"Bearer ">> \o env.GITHUB_TOKEN[1]
                /\ ~HasParam(q, "client_id")
                /\ ~HasParam(q, "client_secret")
           ELSE IF GraphQLPath
           THEN /\ "Authorization" \in DOMAIN u.headers
                /\ u.headers["Authorization"] =
                       <<"Basic ">> \o
                       Base64(env.GITHUB_CLIENT_ID[1] \o <<":">> \o env.GITHUB_CLIENT_SECRET[1])
                /\ ~HasParam(q, "client_id")
                /\ ~HasParam(q, "client_secret")
           ELSE /\ "Authorization" \notin DOMAIN u.headers
                /\ ValuesOf(q, "client_id") = <<env.GITHUB_CLIENT_ID[1]>>
                /\ ValuesOf(q, "client_secret") = <<env.GITHUB_CLIENT_SECRET[1]>>

C3_Witness ==
    /\ Len(upstream) = 1
    /\ TokenConfigured
    /\ env.GITHUB_CLIENT_ID # None /\ env.GITHUB_CLIENT_SECRET # None
    /\ ~GraphQLPath
    /\ HasParam(req.query, "client_id")
    /\ upstream[1].headers["Authorization"] = <<"Bearer ", "ghp_token">>

\* the upstream request of the REST path
IsRestCall == Len(upstream) = 1 /\ ~GraphQLPath

\* C4: on the REST path every inbound parameter whose key is not code, client_id
\* or client_secret is on the upstream URL with its values unchanged, each value
\* of a repeated key kept as a value of its own, and nothing the caller sent
\* under code, client_id or client_secret is on the upstream URL: a client_id or
\* client_secret there is the configured one, added by the id/secret strategy.
C4_QueryCopiedVerbatim ==
    IsRestCall =>
        LET q == UpstreamQuery(upstream[1].url) IN
        /\ \A i \in 1..Len(req.query) :
              req.query[i][1] \notin {"code", "client_id", "client_secret"} =>
                  ValuesOf(q, req.query[i][1]) = req.query[i][2]
        /\ ~HasParam(q, "code")
        /\ \A j \in 1..Len(q) :
              /\ q[j][1] = "client_id" =>
                    ~TokenConfigured /\ q[j][2] = env.GITHUB_CLIENT_ID[1]
              /\ q[j][1] = "client_secret" =>
                    ~TokenConfigured /\ q[j][2] = env.GITHUB_CLIENT_SECRET[1]

\* C4, what the code does: as C4_QueryCopiedVerbatim, but the values of a
\* repeated key reach the upstream URL as one value, joined by commas.
C4_QueryCopiedJoined ==
    IsRestCall =>
        LET q == UpstreamQuery(upstream[1].url) IN
        /\ \A i \in 1..Len(req.query) :
              req.query[i][1] \notin {"code", "client_id", "client_secret"} =>
                  ValuesOf(q, req.query[i][1]) = <<JoinWith(req.query[i][2], ",")>>
        /\ ~HasParam(q, "code")
        /\ \A j \in 1..Len(q) :
              /\ q[j][1] = "client_id" =>
                    ~TokenConfigured /\ q[j][2] = env.GITHUB_CLIENT_ID[1]
              /\ q[j][1] = "client_secret" =>
                    ~TokenConfigured /\ q[j][2] = env.GITHUB_CLIENT_SECRET[1]

\* a POST on the GraphQL path, with credentials, whose body is absent
PostWithoutBody ==
    /\ GraphQLPath /\ ~NoCredentials
    /\ req.method = "POST"
    /\ req.body = None

SentDefaultQuery ==
    /\ Len(upstream) = 1
    /\ upstream[1].url = <<"https://api.github.com/graphql">>
    /\ upstream[1].body = Some(JsonStringify([query |-> "{viewer{login}}"]))

IsMissingQueryAnswer(w) ==
    /\ w.status = 400
    /\ HasBody(w, JsonValue([error |-> "Missing GraphQL query in request body"]))

\* C5 as stated: a POST to the graphql path with no body at all is not refused:
\* the default body {query: "{viewer{login}}"} goes upstream.
C5_PostWithoutBodySendsDefault ==
    (PostWithoutBody /\ Returned) =>
        /\ SentDefaultQuery
        /\ ~IsMissingQueryAnswer(Res)

\* C5, amended: a POST to the graphql path with no body at all is refused with
\* 400 and the missing-query body and makes no upstream call; the default body
\* {query: "{viewer{login}}"} goes upstream, and the upstream result is relayed,
\* when a request of another method (GET) reaches the graphql path with no body.
C5_DefaultBodyOnlyWithoutPost ==
    /\ PostWithoutBody =>
          /\ upstream = <<>>
          /\ Returned => IsMissingQueryAnswer(Res)
    /\ (GraphQLPath /\ ~NoCredentials /\ req.method = "GET" /\ req.body = None) =>
          /\ pc # "start" => SentDefaultQuery
          /\ (Returned /\ error = None) =>
                /\ Res.status = response[1].status
                /\ HasBody(Res, JsonParse(response[1].raw))

C5_Witness ==
    /\ Returned
    /\ GraphQLPath /\ req.method = "GET" /\ req.body = None
    /\ SentDefaultQuery
    /\ error = None
    /\ Res.status = 200

\* a body that exists and has no non-empty query field
BodyWithoutQuery ==
    /\ req.body # None
    /\ IF "query" \in DOMAIN req.body[1] THEN req.body[1].query = "" ELSE TRUE

IsProxyFailure(w, text, message) ==
    /\ w.status = 500
    /\ HasBody(w, JsonValue([error |-> text, details |-> message]))
    /\ HasCorsHeaders(w)

\* C7 as stated: on every path an exception of the upstream call or of the body
\* parsing is answered 500 with {error: "Failed to proxy GitHub API request",
\* details: <message>} and the CORS headers.
C7_OneFailureBody ==
    (Returned /\ error # None) =>
        IsProxyFailure(Res, "Failed to proxy GitHub API request", error[1])

\* C7, amended: such an exception is answered 500 with the CORS headers and the
\* exception message in details; the error text is "Failed to proxy GitHub API
\* request" on the REST path and "Failed to proxy GraphQL request" on the
\* GraphQL path.
C7_FailureBodyPerPath ==
    (Returned /\ error # None) =>
        IF GraphQLPath
        THEN IsProxyFailure(Res, "Failed to proxy GraphQL request", error[1])
        ELSE IsProxyFailure(Res, "Failed to proxy GitHub API request", error[1])

C7_Witness ==
    /\ Returned
    /\ GraphQLPath
    /\ error = Some(InvalidJsonMessage)
    /\ response # None
    /\ Res.status = 500

\* the body of the upstream response can be read: it is JSON text wherever the
\* handler parses it (always on the GraphQL path, under a JSON content type on
\* the REST path)
BodyReadable ==
    /\ response # None
    /\ (GraphQLPath \/ Includes(IF response[1].headers["content-type"] = None THEN <<>>
                                ELSE response[1].headers["content-type"][1],
                                <<"application/json">>))
          => response[1].raw \in {RawUser, RawNotFound}

\* the upstream body as the handler read it
UpstreamBody ==
    IF GraphQLPath \/ Includes(IF response[1].headers["content-type"] = None THEN <<>>
                               ELSE response[1].headers["content-type"][1],
                               <<"application/json">>)
    THEN JsonParse(response[1].raw)
    ELSE TextValue(response[1].raw)

\* C8: when the upstream call completes and its body is read, the response has
\* the upstream status and the upstream body, whatever the status: a 404 or 403
\* is relayed, not turned into the 500 failure answer.
C8_StatusAndBodyRelayed ==
    (Returned /\ BodyReadable) =>
        /\ error = None
        /\ Len(resWrites) = 1
        /\ Res.status = response[1].status
        /\ HasBody(Res, UpstreamBody)

C8_Witness ==
    /\ Returned
    /\ ~GraphQLPath
    /\ response # None
    /\ response[1].status = 404
    /\ response[1].raw = RawNotFound
    /\ Res.status = 404
    /\ Res.body = JsonValue([message |-> "Not Found"])

\* C9: an invocation makes at most one upstream call; once that call failed
\* (rejected, or its body unreadable) or came back, no other call follows, and
\* its outcome alone is the response: the failure answer carrying its exception
\* message, or the upstream status and body.
C9_AtMostOneUpstreamCall ==
    /\ Len(upstream) <= 1
    /\ (response # None \/ error # None) => Len(upstream) = 1
    /\ error # None => Returned
    /\ (Returned /\ Len(upstream) = 1) =>
          IF error # None
          THEN Res.status = 500 /\ Res.body.value.details = error[1]
          ELSE Res.status = response[1].status /\ HasBody(Res, UpstreamBody)

C9_Witness ==
    /\ Returned
    /\ Len(upstream) = 1
    /\ error = Some(FetchFailedMessage)
    /\ ~GraphQLPath

\* a structured error answer: status 400 or 500 and a JSON body with an error field
IsErrorObject(w) ==
    /\ w.status \in {400, 500}
    /\ "body" \in DOMAIN w
    /\ w.body.type = "json"
    /\ "error" \in DOMAIN w.body.value

\* a complete answer: the preflight answer, or the relayed upstream response
IsCompleteResponse(w) ==
    \/ /\ req.method = "OPTIONS"
       /\ w.status = 200 /\ HasCorsHeaders(w) /\ "body" \notin DOMAIN w
    \/ /\ response # None /\ error = None
       /\ w.status = response[1].status
       /\ HasCorsHeaders(w)
       /\ HasBody(w, UpstreamBody)

\* C10: an invocation that has not returned can take a step and has set no
\* response; one that returned has set context.res exactly once, to a complete
\* (preflight or relayed) response or to a structured error, not both; a failure
\* on the GraphQL path is answered by the GraphQL handler's catch block alone.
C10_OneFinalResponse ==
    /\ ~Returned => (resWrites = <<>> /\ CanStep)
    /\ Returned =>
          /\ Len(resWrites) = 1
          /\ IsCompleteResponse(Res) # IsErrorObject(Res)
          /\ IsErrorObject(Res) <=>
                 ((error # None \/ response = None) /\ req.method # "OPTIONS")
          /\ (GraphQLPath /\ error # None) =>
                 Res.body.value.error = "Failed to proxy GraphQL request"

C10_Witness ==
    /\ Returned
    /\ GraphQLPath
    /\ error = Some(FetchFailedMessage)
    /\ Len(resWrites) = 1
    /\ IsErrorObject(Res)

====
